---- MODULE Spec2Model ----
(***************************************************************************)
(* Road intersection simulation: the World of src/lib.rs (vehicles, the    *)
(* fixed-cycle controller with a clearance flag, spawn and tick) and the   *)
(* adaptive TrafficLightController of src/traffic_light.rs.                *)
(*                                                                         *)
(* Time is wall-clock time in milliseconds.  An Instant is modelled by the *)
(* time elapsed since it was taken, capped once no comparison of the code  *)
(* can tell the difference any more.                                       *)
(***************************************************************************)
EXTENDS Integers, Sequences, FiniteSets, TLC

VARIABLES vehicles, controller, next_id, tl

vars == <<vehicles, controller, next_id, tl>>

(***************************************************************************)
(* Bounds of the model.                                                    *)
(***************************************************************************)
\* spawn_vehicle is called at most MaxVehicles times in a run
MaxVehicles == 2
\* a further spawn_vehicle call comes at most MaxSpawnLag ticks of travel
\* after the previous one
MaxSpawnLag == 2
\* wall-clock time that passes between two World::update calls, in seconds
TickSecs == 1
\* spawn_vehicle is called at most MaxLaneSpawns times in a run of SpecLane
MaxLaneSpawns == 14
MinFollowLag == 4
MaxFollowLag == 6
\* the shorter of the wall-clock times between two calls of the adaptive
\* controller's update, in ms
TLStepMs == 250
\* the adaptive controller is constructed with 1..MaxPhaseSecs seconds
MaxPhaseSecs == 3

(***************************************************************************)
(* src/lib.rs constants                                                    *)
(***************************************************************************)
WINDOW_WIDTH == 800
WINDOW_HEIGHT == 600
ROAD_WIDTH == 100
ROAD_X == (WINDOW_WIDTH - ROAD_WIDTH) \div 2
ROAD_Y == (WINDOW_HEIGHT - ROAD_WIDTH) \div 2
INTERSECTION_X_START == ROAD_X
INTERSECTION_X_END == ROAD_X + ROAD_WIDTH
INTERSECTION_Y_START == ROAD_Y
INTERSECTION_Y_END == ROAD_Y + ROAD_WIDTH
NORTHBOUND_LANE_X == (ROAD_X + ROAD_WIDTH \div 2 + ROAD_X + ROAD_WIDTH) \div 2
SOUTHBOUND_LANE_X == (ROAD_X + ROAD_WIDTH \div 2 + ROAD_X) \div 2
EASTBOUND_LANE_Y == (ROAD_Y + ROAD_WIDTH \div 2 + ROAD_Y + ROAD_WIDTH) \div 2
WESTBOUND_LANE_Y == (ROAD_Y + ROAD_WIDTH \div 2 + ROAD_Y) \div 2
VEHICLE_SIZE == 20
\* distance of the off-screen path ends from the window edge
OFFSCREEN == 20
\* distance of the stop waypoint from the intersection edge
STOP_OFFSET == 5
\* step length of a vehicle per tick, and the snap distance
STEP == 5
\* margin of the eviction sweep
EVICT_MARGIN == 40
\* World::new: TrafficLightController::new(3)
PHASE_SECS == 3
\* waiting_vehicles > 5 lengthens the phase
WAITING_THRESHOLD == 5
MS_PER_SEC == 1000

Secs(n) == n * MS_PER_SEC

Direction == {"North", "South", "East", "West"}
Turn == {"Left", "Right", "Straight"}

\* the match on self.current in TrafficLightController::update
NextDirection(d) ==
    CASE d = "North" -> "South"
      [] d = "South" -> "East"
      [] d = "East" -> "West"
      [] d = "West" -> "North"

(***************************************************************************)
(* generate_path of src/lib.rs                                             *)
(***************************************************************************)
generate_path(dir, turn) ==
    CASE dir = "North" ->
           LET x == SOUTHBOUND_LANE_X IN
           <<<<x, -OFFSCREEN>>, <<x, INTERSECTION_Y_START - STOP_OFFSET>>>> \o
           (CASE turn = "Straight" -> <<<<x, WINDOW_HEIGHT + OFFSCREEN>>>>
              [] turn = "Left" -> <<<<x, EASTBOUND_LANE_Y>>,
                                    <<WINDOW_WIDTH + OFFSCREEN, EASTBOUND_LANE_Y>>>>
              [] turn = "Right" -> <<<<x, WESTBOUND_LANE_Y>>,
                                     <<-OFFSCREEN, WESTBOUND_LANE_Y>>>>)
      [] dir = "South" ->
           LET x == NORTHBOUND_LANE_X IN
           <<<<x, WINDOW_HEIGHT + OFFSCREEN>>, <<x, INTERSECTION_Y_END + STOP_OFFSET>>>> \o
           (CASE turn = "Straight" -> <<<<x, -OFFSCREEN>>>>
              [] turn = "Left" -> <<<<x, WESTBOUND_LANE_Y>>,
                                    <<-OFFSCREEN, WESTBOUND_LANE_Y>>>>
              [] turn = "Right" -> <<<<x, EASTBOUND_LANE_Y>>,
                                     <<WINDOW_WIDTH + OFFSCREEN, EASTBOUND_LANE_Y>>>>)
      [] dir = "East" ->
           LET y == WESTBOUND_LANE_Y IN
           <<<<WINDOW_WIDTH + OFFSCREEN, y>>, <<INTERSECTION_X_END + STOP_OFFSET, y>>>> \o
           (CASE turn = "Straight" -> <<<<-OFFSCREEN, y>>>>
              [] turn = "Left" -> <<<<SOUTHBOUND_LANE_X, y>>,
                                    <<SOUTHBOUND_LANE_X, WINDOW_HEIGHT + OFFSCREEN>>>>
              [] turn = "Right" -> <<<<NORTHBOUND_LANE_X, y>>,
                                     <<NORTHBOUND_LANE_X, -OFFSCREEN>>>>)
      [] dir = "West" ->
           LET y == EASTBOUND_LANE_Y IN
           <<<<-OFFSCREEN, y>>, <<INTERSECTION_X_START - STOP_OFFSET, y>>>> \o
           (CASE turn = "Straight" -> <<<<WINDOW_WIDTH + OFFSCREEN, y>>>>
              [] turn = "Left" -> <<<<NORTHBOUND_LANE_X, y>>,
                                    <<NORTHBOUND_LANE_X, -OFFSCREEN>>>>
              [] turn = "Right" -> <<<<SOUTHBOUND_LANE_X, y>>,
                                     <<SOUTHBOUND_LANE_X, WINDOW_HEIGHT + OFFSCREEN>>>>)

(***************************************************************************)
(* generate_path of src/vehicle.rs                                         *)
(***************************************************************************)
\* todo!(): the call panics and returns no path
Todo == <<>>

vehicle_generate_path(dir, turn) ==
    CASE dir = "North" ->
           LET x == SOUTHBOUND_LANE_X - 10 IN
           <<<<x, -20>>, <<x, INTERSECTION_Y_START - VEHICLE_SIZE - 5>>>> \o
           (CASE turn = "Straight" -> <<<<x, INTERSECTION_Y_START + 6>>,
                                        <<x, WINDOW_HEIGHT + VEHICLE_SIZE>>>>
              [] turn = "Left" -> <<<<x, EASTBOUND_LANE_Y - 10>>,
                                    <<WINDOW_WIDTH + VEHICLE_SIZE, EASTBOUND_LANE_Y - 10>>>>
              [] turn = "Right" -> <<<<x, WESTBOUND_LANE_Y - 10>>,
                                     <<-20, WESTBOUND_LANE_Y - 10>>>>)
      [] dir = "South" ->
           LET x == NORTHBOUND_LANE_X - 10 IN
           <<<<x, WINDOW_HEIGHT + VEHICLE_SIZE>>, <<x, INTERSECTION_Y_END + 5>>>> \o
           (CASE turn = "Straight" -> <<<<x, INTERSECTION_Y_END - 6>>,
                                        <<x, -VEHICLE_SIZE>>>>
              [] turn = "Left" -> <<<<x, WESTBOUND_LANE_Y - 10>>,
                                    <<-VEHICLE_SIZE, WESTBOUND_LANE_Y - 10>>>>
              [] turn = "Right" -> <<<<x, EASTBOUND_LANE_Y - 10>>,
                                     <<WINDOW_WIDTH + VEHICLE_SIZE, EASTBOUND_LANE_Y - 10>>>>)
      [] dir = "East" ->
           LET y == WESTBOUND_LANE_Y - 10 IN
           <<<<WINDOW_WIDTH + VEHICLE_SIZE, y>>, <<INTERSECTION_X_END + 5, y>>>> \o
           (CASE turn = "Straight" -> <<<<INTERSECTION_X_END - 6, y>>,
                                        <<-VEHICLE_SIZE, y>>>>
              [] turn = "Left" -> <<<<SOUTHBOUND_LANE_X - 10, y>>,
                                    <<SOUTHBOUND_LANE_X - 10, WINDOW_HEIGHT + VEHICLE_SIZE>>>>
              [] turn = "Right" -> <<<<NORTHBOUND_LANE_X - 10, y>>,
                                     <<NORTHBOUND_LANE_X - 10, -VEHICLE_SIZE>>>>)
      [] dir = "West" ->
           LET y == EASTBOUND_LANE_Y - 10 IN
           <<<<-VEHICLE_SIZE, y>>, <<INTERSECTION_X_START - VEHICLE_SIZE - 5, y>>>> \o
           (CASE turn = "Straight" -> <<<<INTERSECTION_X_START + 1, y>>,
                                        <<WINDOW_WIDTH + VEHICLE_SIZE, y>>>>
              [] turn = "Left" -> <<<<NORTHBOUND_LANE_X - 10, y>>,
                                    <<NORTHBOUND_LANE_X - 10, -VEHICLE_SIZE>>>>
              [] turn = "Right" -> <<<<SOUTHBOUND_LANE_X - 10, y>>,
                                     <<SOUTHBOUND_LANE_X - 10, WINDOW_HEIGHT + VEHICLE_SIZE>>>>)
      [] dir = "AllRed" -> Todo

(***************************************************************************)
(* TrafficLightController of src/lib.rs                                    *)
(***************************************************************************)
\* the cap of an elapsed time: beyond it every comparison has one outcome
ElapsedCap == Secs(PHASE_SECS + 2)

Min(a, b) == IF a < b THEN a ELSE b
Max(a, b) == IF a > b THEN a ELSE b

\* TrafficLightController::new(phase_secs); elapsed stands for
\* last_switch.elapsed()
ControllerNew(phase_secs) ==
    [current |-> "North",
     all_red_phase |-> FALSE,
     phase_duration |-> Secs(phase_secs),
     elapsed |-> 0,
     base_phase_duration |-> Secs(phase_secs)]

\* the phase duration chosen when an approach becomes green
GreenDuration(base, waiting_vehicles) ==
    IF waiting_vehicles > WAITING_THRESHOLD THEN base + Secs(2)
    ELSE IF waiting_vehicles = 0 THEN Max(Max(base - Secs(1), 0), Secs(1))
    ELSE base

\* TrafficLightController::update(waiting_vehicles, cars_in_intersection)
ControllerUpdate(c, waiting_vehicles, cars_in_intersection) ==
    IF c.elapsed >= c.phase_duration
    THEN IF c.all_red_phase
         THEN [c EXCEPT !.elapsed = 0,
                        !.all_red_phase = FALSE,
                        !.current = NextDirection(c.current),
                        !.phase_duration =
                            GreenDuration(c.base_phase_duration, waiting_vehicles)]
         ELSE IF cars_in_intersection
              THEN [c EXCEPT !.elapsed = 0,
                             !.all_red_phase = TRUE,
                             !.phase_duration = Secs(2)]
              ELSE [c EXCEPT !.elapsed = 0,
                             !.current = NextDirection(c.current),
                             !.phase_duration =
                                 GreenDuration(c.base_phase_duration, waiting_vehicles)]
    ELSE c

\* wall-clock time dt passes
ControllerAdvance(c, dt) == [c EXCEPT !.elapsed = Min(c.elapsed + dt, ElapsedCap)]

(***************************************************************************)
(* TrafficLightController of src/traffic_light.rs (the adaptive one)       *)
(***************************************************************************)
MAX_PHASE_SECS == 30
MAX_PHASE_DURATION == Secs(MAX_PHASE_SECS)
\* the grace interval of the early switch, in ms
GRACE_MS == 500
\* the clearance duration, in seconds
CLEARANCE_SECS == 2

\* Option<Instant>: None is the empty sequence, Some(i) the sequence of the
\* time elapsed since the Instant i
None == <<>>
Some(e) == <<e>>

\* TrafficLightController::new(phase_secs); elapsed stands for
\* last_switch.elapsed(), last_car_cleared_time for the time elapsed since
\* that Instant (None when the Option is None)
TLNew(phase_secs) ==
    [current |-> "North",
     phase_duration |-> Secs(phase_secs),
     elapsed |-> 0,
     base_phase_duration |-> Secs(phase_secs),
     max_phase_duration |-> MAX_PHASE_DURATION,
     last_car_cleared_time |-> None,
     last_green_direction |-> "West"]

\* mutant of TLNextDirection: the arm of West leads past North
TLNextDirection_PastNorth(d) ==
    CASE d = "North" -> "South"
      [] d = "South" -> "East"
      [] d = "East" -> "West"
      [] d = "West" -> "South"
      [] OTHER -> "South"

\* mutant of TLNextDirection: the arms of South and East are swapped
TLNextDirection_Mutant(d) ==
    CASE d = "North" -> "South"
      [] d = "South" -> "West"
      [] d = "East" -> "East"
      [] d = "West" -> "North"
      [] OTHER -> "North"

\* the two matches of update, with their fallback arm
TLNextDirection(d) ==
    CASE d = "North" -> "South"
      [] d = "South" -> "East"
      [] d = "East" -> "West"
      [] d = "West" -> "North"
      [] OTHER -> "North"

\* mutant of TLCleared: a waiting vehicle leaves the timer running
TLCleared_Mutant(t, waiting_vehicles) ==
    IF waiting_vehicles = 0
    THEN IF t.last_car_cleared_time = None THEN Some(0) ELSE t.last_car_cleared_time
    ELSE t.last_car_cleared_time

\* update, the block on waiting_vehicles == 0: the new last_car_cleared_time
TLCleared(t, waiting_vehicles) ==
    IF waiting_vehicles = 0
    THEN IF t.last_car_cleared_time = None THEN Some(0) ELSE t.last_car_cleared_time
    ELSE None

\* update, the block on waiting_vehicles == 0: should_switch
TLShouldSwitch(t, waiting_vehicles) ==
    /\ waiting_vehicles = 0
    /\ t.last_car_cleared_time # None
    /\ t.last_car_cleared_time[1] >= GRACE_MS

\* mutant of TLSwitchDue: the test against max_phase_duration is missing
TLSwitchDue_NoMax(t, waiting_vehicles) ==
    \/ TLShouldSwitch(t, waiting_vehicles)
    \/ t.elapsed >= t.phase_duration

\* update, the condition of the switch
TLSwitchDue(t, waiting_vehicles) ==
    \/ TLShouldSwitch(t, waiting_vehicles)
    \/ t.elapsed >= t.phase_duration
    \/ t.elapsed >= t.max_phase_duration

\* update, the if/else chain that sets phase_duration at the end of a switch
TLPhaseDuration(base, waiting_vehicles, is_congested) ==
    IF is_congested THEN base + Secs(5)
    ELSE IF waiting_vehicles > WAITING_THRESHOLD THEN base + Secs(2)
    ELSE IF waiting_vehicles = 0 THEN Max(Max(base - Secs(1), 0), Secs(1))
    ELSE base

\* mutant of TLControllerUpdate: the adaptive duration is set at every
\* update, not only at a switch
TLControllerUpdate_AlwaysAdapts(t, waiting_vehicles, cars_in_intersection, vehicles_on_stop_line, is_congested) ==
    LET t1 == [t EXCEPT !.last_car_cleared_time = TLCleared(t, waiting_vehicles)]
        t4 == IF TLSwitchDue(t, waiting_vehicles)
              THEN LET t2 == [t1 EXCEPT !.elapsed = 0, !.last_car_cleared_time = None]
                   IN IF t2.current = "AllRed"
                      THEN [t2 EXCEPT !.current = TLNextDirection(t2.last_green_direction)]
                      ELSE IF cars_in_intersection \/ vehicles_on_stop_line
                           THEN [t2 EXCEPT !.last_green_direction = t2.current,
                                           !.current = "AllRed",
                                           !.phase_duration = Secs(CLEARANCE_SECS)]
                           ELSE [t2 EXCEPT !.current = TLNextDirection(t2.current)]
              ELSE t1
    IN [t4 EXCEPT !.phase_duration =
            TLPhaseDuration(t4.base_phase_duration, waiting_vehicles, is_congested)]

\* mutant of TLControllerUpdate: the clearance phase needs both occupancy
\* inputs
TLControllerUpdate_BothInputs(t, waiting_vehicles, cars_in_intersection, vehicles_on_stop_line, is_congested) ==
    LET t1 == [t EXCEPT !.last_car_cleared_time = TLCleared(t, waiting_vehicles)]
    IN IF TLSwitchDue(t, waiting_vehicles)
       THEN LET t2 == [t1 EXCEPT !.elapsed = 0, !.last_car_cleared_time = None]
                t3 == IF t2.current = "AllRed"
                      THEN [t2 EXCEPT !.current = TLNextDirection(t2.last_green_direction)]
                      ELSE IF cars_in_intersection /\ vehicles_on_stop_line
                           THEN [t2 EXCEPT !.last_green_direction = t2.current,
                                           !.current = "AllRed",
                                           !.phase_duration = Secs(CLEARANCE_SECS)]
                           ELSE [t2 EXCEPT !.current = TLNextDirection(t2.current)]
            IN [t3 EXCEPT !.phase_duration =
                    TLPhaseDuration(t3.base_phase_duration, waiting_vehicles, is_congested)]
       ELSE t1

\* TrafficLightController::update(waiting_vehicles, cars_in_intersection,
\*                                vehicles_on_stop_line, is_congested)
TLControllerUpdate(t, waiting_vehicles, cars_in_intersection, vehicles_on_stop_line, is_congested) ==
    LET t1 == [t EXCEPT !.last_car_cleared_time = TLCleared(t, waiting_vehicles)]
    IN IF TLSwitchDue(t, waiting_vehicles)
       THEN LET t2 == [t1 EXCEPT !.elapsed = 0, !.last_car_cleared_time = None]
                t3 == IF t2.current = "AllRed"
                      THEN [t2 EXCEPT !.current = TLNextDirection(t2.last_green_direction)]
                      ELSE IF cars_in_intersection \/ vehicles_on_stop_line
                           THEN [t2 EXCEPT !.last_green_direction = t2.current,
                                           !.current = "AllRed",
                                           !.phase_duration = Secs(CLEARANCE_SECS)]
                           ELSE [t2 EXCEPT !.current = TLNextDirection(t2.current)]
            IN [t3 EXCEPT !.phase_duration =
                    TLPhaseDuration(t3.base_phase_duration, waiting_vehicles, is_congested)]
       ELSE t1

\* wall-clock time dt passes
TLAdvance(t, dt) ==
    [t EXCEPT !.elapsed = Min(t.elapsed + dt, t.max_phase_duration),
              !.last_car_cleared_time =
                  IF t.last_car_cleared_time = None THEN None
                  ELSE Some(Min(t.last_car_cleared_time[1] + dt, GRACE_MS))]

\* the values of waiting_vehicles that update tells apart
WaitingInputs == {0, 1, WAITING_THRESHOLD + 1}

\* the wall-clock times between two calls of update
TLDts == {TLStepMs, Secs(1)}

\* one call of update, dt after the previous one
TLUpdate(dt, waiting_vehicles, cars_in_intersection, vehicles_on_stop_line, is_congested) ==
    /\ tl' = TLControllerUpdate(TLAdvance(tl, dt), waiting_vehicles, cars_in_intersection,
                                vehicles_on_stop_line, is_congested)
    /\ UNCHANGED <<vehicles, controller, next_id>>

(***************************************************************************)
(* World of src/lib.rs                                                     *)
(***************************************************************************)
Indices(s) == 1..Len(s)

\* path_index is 0-based in the source; Sequences are 1-based
PathAt(v, i) == v.path[i + 1]

\* World::update: the waiting_vehicles loop
WaitingVehicles(vs, c) ==
    Cardinality({i \in Indices(vs) : vs[i].dir = c.current /\ vs[i].path_index = 1})

\* World::update: the test of the cars_in_intersection loop
InIntersection(v) ==
    /\ v.x < INTERSECTION_X_END
    /\ v.x + VEHICLE_SIZE > INTERSECTION_X_START
    /\ v.y < INTERSECTION_Y_END
    /\ v.y + VEHICLE_SIZE > INTERSECTION_Y_START

CarsInIntersection(vs) == \E i \in Indices(vs) : InIntersection(vs[i])

\* is_green
IsGreen(v, c) == v.dir = c.current /\ ~c.all_red_phase

\* mutant of StopForLight: a vehicle inside the intersection is let through
StopForLight_Mutant(v, c) == v.path_index = 1 /\ ~IsGreen(v, c) /\ ~InIntersection(v)

\* should_stop after the light test
StopForLight(v, c) == v.path_index = 1 /\ ~IsGreen(v, c)

\* the body of the loop over vehicles_clone: other blocks v
Blocks(v, other) ==
    LET my_next_pos == IF v.path_index + 1 < Len(v.path)
                       THEN PathAt(v, v.path_index + 1)
                       ELSE <<v.x, v.y>>
        dist_sq == (v.x - other.x) * (v.x - other.x) + (v.y - other.y) * (v.y - other.y)
        dx == my_next_pos[1] - v.x
        dy == my_next_pos[2] - v.y
        odx == other.x - v.x
        ody == other.y - v.y
    IN /\ v.id # other.id
       /\ dist_sq < (VEHICLE_SIZE * VEHICLE_SIZE) * 2
       /\ dx * odx + dy * ody > 0

\* !can_move
StopForCollision(v, snapshot) ==
    /\ v.path_index < 2
    /\ \E j \in Indices(snapshot) : Blocks(v, snapshot[j])

ShouldStop(v, c, snapshot) == StopForLight(v, c) \/ StopForCollision(v, snapshot)

Abs(n) == IF n < 0 THEN -n ELSE n

\* (d as f32 / dist * 5.0) as i32 with dist = sqrt(dist_sq): the cast truncates
\* toward zero, so the result is the largest k with k * dist <= 5 * |d|
StepToward(d, dist_sq) ==
    LET k == CHOOSE n \in 0..STEP :
                 /\ n * n * dist_sq <= STEP * STEP * d * d
                 /\ \A m \in 0..STEP : m * m * dist_sq <= STEP * STEP * d * d => m <= n
    IN IF d < 0 THEN -k ELSE k

\* mutant of Advance: the waypoint counts as reached at a distance of STEP
Advance_Mutant(v) ==
    IF v.path_index < Len(v.path) - 1
    THEN LET target == PathAt(v, v.path_index + 1)
             dx == target[1] - v.x
             dy == target[2] - v.y
             dist_sq == dx * dx + dy * dy
         IN IF dist_sq <= STEP * STEP
            THEN [v EXCEPT !.path_index = v.path_index + 1]
            ELSE [v EXCEPT !.x = v.x + StepToward(dx, dist_sq),
                           !.y = v.y + StepToward(dy, dist_sq)]
    ELSE [v EXCEPT !.passed = TRUE]

\* the motion of one vehicle that does not stop
Advance(v) ==
    IF v.path_index < Len(v.path) - 1
    THEN LET target == PathAt(v, v.path_index + 1)
             dx == target[1] - v.x
             dy == target[2] - v.y
             dist_sq == dx * dx + dy * dy
         IN IF dist_sq < STEP * STEP
            THEN [v EXCEPT !.path_index = v.path_index + 1]
            ELSE [v EXCEPT !.x = v.x + StepToward(dx, dist_sq),
                           !.y = v.y + StepToward(dy, dist_sq)]
    ELSE [v EXCEPT !.passed = TRUE]

\* mutant of MoveVehicle: a passed vehicle drives on along its last leg
MoveVehicle_DrivesOn(v, c, snapshot) ==
    IF v.passed
    THEN LET from == PathAt(v, Len(v.path) - 2)
             to == PathAt(v, Len(v.path) - 1)
             dx == to[1] - from[1]
             dy == to[2] - from[2]
         IN [v EXCEPT !.x = v.x + StepToward(dx, dx * dx + dy * dy),
                      !.y = v.y + StepToward(dy, dx * dx + dy * dy)]
    ELSE IF ShouldStop(v, c, snapshot) THEN v
    ELSE Advance(v)

\* the body of the loop over self.vehicles
MoveVehicle(v, c, snapshot) ==
    IF v.passed THEN v
    ELSE IF ShouldStop(v, c, snapshot) THEN v
    ELSE Advance(v)

\* mutant of MoveAll: the loop reads the vector it is writing, so a vehicle
\* sees the new positions of the vehicles before it
RECURSIVE MoveInPlace(_, _, _)
MoveInPlace(vs, c, i) ==
    IF i > Len(vs) THEN vs
    ELSE MoveInPlace([vs EXCEPT ![i] = MoveVehicle(vs[i], c, vs)], c, i + 1)

MoveAll_InPlace(vs, c) == MoveInPlace(vs, c, 1)

\* the loop over self.vehicles, reading vehicles_clone
MoveAll(vs, c) == [i \in Indices(vs) |-> MoveVehicle(vs[i], c, vs)]

\* mutant of InBounds: the comparisons admit the margin itself
InBounds_Mutant(v) ==
    /\ v.x >= -EVICT_MARGIN
    /\ v.x <= WINDOW_WIDTH + EVICT_MARGIN
    /\ v.y >= -EVICT_MARGIN
    /\ v.y <= WINDOW_HEIGHT + EVICT_MARGIN

\* mutant of InBounds: the margin is the size of a vehicle
InBounds_Narrow(v) ==
    /\ v.x > -VEHICLE_SIZE
    /\ v.x < WINDOW_WIDTH + VEHICLE_SIZE
    /\ v.y > -VEHICLE_SIZE
    /\ v.y < WINDOW_HEIGHT + VEHICLE_SIZE

\* the predicate of retain
InBounds(v) ==
    /\ v.x > -EVICT_MARGIN
    /\ v.x < WINDOW_WIDTH + EVICT_MARGIN
    /\ v.y > -EVICT_MARGIN
    /\ v.y < WINDOW_HEIGHT + EVICT_MARGIN

RECURSIVE Retain(_)
Retain(vs) ==
    IF vs = <<>> THEN <<>>
    ELSE IF InBounds(Head(vs)) THEN <<Head(vs)>> \o Retain(Tail(vs))
    ELSE Retain(Tail(vs))

\* Vehicle { id, dir, turn, x, y, passed: false, path, path_index: 0 }
NewVehicle(id, dir, turn) ==
    LET path == generate_path(dir, turn)
    IN [id |-> id, dir |-> dir, turn |-> turn,
        x |-> path[1][1], y |-> path[1][2],
        passed |-> FALSE, path |-> path, path_index |-> 0]

\* the controller after the update call of World::update
ControllerAfter(vs, c, dt) ==
    ControllerUpdate(ControllerAdvance(c, dt), WaitingVehicles(vs, c), CarsInIntersection(vs))

\* World::update, dt of wall-clock time after the previous call
Tick(dt) ==
    LET c == ControllerAfter(vehicles, controller, dt)
    IN /\ controller' = c
       /\ vehicles' = Retain(MoveAll(vehicles, c))
       /\ UNCHANGED <<next_id, tl>>

\* the vehicle spawned last is still near its spawn point
SpawnWindowOpen ==
    \A i \in Indices(vehicles) :
        vehicles[i].id + 1 = next_id =>
            /\ vehicles[i].path_index = 0
            /\ Abs(vehicles[i].x - PathAt(vehicles[i], 0)[1])
                + Abs(vehicles[i].y - PathAt(vehicles[i], 0)[2]) <= MaxSpawnLag * STEP

\* mutant of SpawnVehicle: the id is used up and no vehicle is pushed
SpawnVehicle_Mutant(dir, turn) ==
    /\ vehicles' = vehicles
    /\ next_id' = next_id + 1
    /\ UNCHANGED <<controller, tl>>

\* mutant of SpawnVehicle: next_id is left as it was
SpawnVehicle_Stale(dir, turn) ==
    /\ vehicles' = Append(vehicles, NewVehicle(next_id, dir, turn))
    /\ next_id' = next_id
    /\ UNCHANGED <<controller, tl>>

\* World::spawn_vehicle(dir), turn the value drawn from rng
SpawnVehicle(dir, turn) ==
    /\ vehicles' = Append(vehicles, NewVehicle(next_id, dir, turn))
    /\ next_id' = next_id + 1
    /\ UNCHANGED <<controller, tl>>

\* a call of World::spawn_vehicle within the bounds of the model
Spawn(dir, turn) ==
    /\ next_id < MaxVehicles
    /\ SpawnWindowOpen
    /\ SpawnVehicle(dir, turn)

\* World::new()
Init ==
    /\ vehicles = <<>>
    /\ controller = ControllerNew(PHASE_SECS)
    /\ next_id = 0
    /\ tl = TLNew(PHASE_SECS)

\* the calls of main's loop: spawn requests and one World::update per frame
Next ==
    \/ Tick(Secs(TickSecs))
    \/ \E dir \in Direction, turn \in Turn : Spawn(dir, turn)

Spec == Init /\ [][Next]_vars

\* a call of World::spawn_vehicle on the world as constructed
FirstSpawn(dir, turn) ==
    /\ next_id = 0
    /\ SpawnVehicle(dir, turn)

NextLive ==
    \/ Tick(Secs(TickSecs))
    \/ \E dir \in Direction, turn \in Turn : FirstSpawn(dir, turn)

\* one vehicle in the world; main's loop calls World::update in every
\* iteration, for ever
LiveSpec == Init /\ [][NextLive]_vars /\ WF_vars(Tick(Secs(TickSecs)))

\* the arguments of TrafficLightController::new: the short phases, among
\* them 0, where saturating_sub acts, and one at the hard maximum
BasePhaseSecs == 0..MaxPhaseSecs \cup {MAX_PHASE_SECS}

\* the adaptive controller on its own, for every input of update
InitTL ==
    /\ vehicles = <<>>
    /\ controller = ControllerNew(PHASE_SECS)
    /\ next_id = 0
    /\ tl \in {TLNew(p) : p \in BasePhaseSecs}

NextTL ==
    \E dt \in TLDts, w \in WaitingInputs, cars \in BOOLEAN, line \in BOOLEAN, cong \in BOOLEAN :
        TLUpdate(dt, w, cars, line, cong)

SpecTL == InitTL /\ [][NextTL]_vars

\* update of the adaptive controller is called again and again, for ever
LiveSpecTL == InitTL /\ [][NextTL]_vars /\ WF_vars(NextTL)

\* spawn_vehicle called again and again on one approach, no tick in between
LaneSpawn(dir, turn) ==
    /\ next_id < MaxLaneSpawns
    /\ SpawnVehicle(dir, turn)

LaneTurns == {"Left", "Straight"}

NextLane == \E turn \in LaneTurns : LaneSpawn("North", turn)

SpecLane == Init /\ [][NextLane]_vars

\* the distance a vehicle has covered on the first leg of its path
FromSpawn(v) == Abs(v.x - PathAt(v, 0)[1]) + Abs(v.y - PathAt(v, 0)[2])

\* a second call of World::spawn_vehicle on the approach of the first
\* vehicle, MinFollowLag to MaxFollowLag ticks of free motion after the first
FollowSpawn(turn) ==
    /\ next_id = 1
    /\ Len(vehicles) = 1
    /\ vehicles[1].path_index = 0
    /\ FromSpawn(vehicles[1]) >= MinFollowLag * STEP
    /\ FromSpawn(vehicles[1]) <= MaxFollowLag * STEP
    /\ SpawnVehicle(vehicles[1].dir, turn)

NextFollow ==
    \/ Tick(Secs(TickSecs))
    \/ \E dir \in Direction, turn \in Turn : FirstSpawn(dir, turn)
    \/ \E turn \in Turn : FollowSpawn(turn)

\* two vehicles on one approach, the second spawned clear of the first
SpecFollow == Init /\ [][NextFollow]_vars

\* World.vehicles and the fields of Vehicle are pub: a caller of the library
\* has spawned one vehicle and written its x and y
PlacedXs == {-100, -EVICT_MARGIN - STEP, -EVICT_MARGIN, SOUTHBOUND_LANE_X,
             WINDOW_WIDTH + EVICT_MARGIN, WINDOW_WIDTH + EVICT_MARGIN + STEP}
PlacedYs == {-EVICT_MARGIN - STEP, -EVICT_MARGIN, WESTBOUND_LANE_Y, EASTBOUND_LANE_Y,
             WINDOW_HEIGHT + EVICT_MARGIN, WINDOW_HEIGHT + EVICT_MARGIN + STEP}

InitEvict ==
    /\ \E dir \in Direction, turn \in Turn, x \in PlacedXs, y \in PlacedYs :
           vehicles = <<[NewVehicle(0, dir, turn) EXCEPT !.x = x, !.y = y]>>
    /\ controller = ControllerNew(PHASE_SECS)
    /\ next_id = 1
    /\ tl = TLNew(PHASE_SECS)

SpecEvict == InitEvict /\ [][Next]_vars

(***************************************************************************)
(* The claims                                                              *)
(***************************************************************************)
Ids(vs) == {vs[i].id : i \in Indices(vs)}

\* C1: the controller never leaves the clearance state on an update whose
\* cars_in_intersection input is true (World::update passes whether a
\* vehicle overlaps the intersection before the tick).
C1_StaysAllRedWhileOccupied ==
    [][(controller.all_red_phase /\ CarsInIntersection(vehicles))
            => controller'.all_red_phase]_vars

\* C2: in every tick, a vehicle with path_index = 1 whose approach is not
\* green after the controller update keeps its position and path_index; so a
\* vehicle with path_index = 1 changes only in a tick where its approach is
\* green.
C2_HeldAtRed ==
    [][\A i \in Indices(vehicles) :
          (vehicles[i].path_index = 1 /\ ~IsGreen(vehicles[i], controller'))
              => \E j \in Indices(vehicles') :
                     /\ vehicles'[j].id = vehicles[i].id
                     /\ vehicles'[j].x = vehicles[i].x
                     /\ vehicles'[j].y = vehicles[i].y
                     /\ vehicles'[j].path_index = vehicles[i].path_index]_vars

\* C2 witness: a vehicle that has left its stop waypoint under green stands
\* with path_index = 1 while its approach is not green.
C2_Witness ==
    \E i \in Indices(vehicles) :
        /\ vehicles[i].path_index = 1
        /\ ~IsGreen(vehicles[i], controller)
        /\ <<vehicles[i].x, vehicles[i].y>> # PathAt(vehicles[i], 1)

\* C3: in a tick, a vehicle that overlaps the intersection and that no other
\* vehicle blocks advances (it moves or its path_index grows), whatever the
\* controller state.
C3_NeverStoppedInsideBox ==
    [][next_id' = next_id =>
          \A i \in Indices(vehicles) :
              (/\ InIntersection(vehicles[i])
               /\ ~vehicles[i].passed
               /\ \A k \in Indices(vehicles) : ~Blocks(vehicles[i], vehicles[k]))
                  => \A j \in Indices(vehicles') :
                         vehicles'[j].id = vehicles[i].id
                             => \/ vehicles'[j].x # vehicles[i].x
                                \/ vehicles'[j].y # vehicles[i].y
                                \/ vehicles'[j].path_index > vehicles[i].path_index]_vars

\* the VEHICLE_SIZE squares of two vehicles overlap (without any safety gap:
\* squares that overlap also overlap when inflated by a gap)
Overlap(v, w) ==
    /\ Abs(v.x - w.x) < VEHICLE_SIZE
    /\ Abs(v.y - w.y) < VEHICLE_SIZE

\* C4: after every World::update, the bounding boxes of two distinct
\* vehicles that are both not passed do not overlap.
C4_NoOverlapAfterUpdate ==
    [][next_id' = next_id =>
          \A i, j \in Indices(vehicles') :
              (i # j /\ ~vehicles'[i].passed /\ ~vehicles'[j].passed)
                  => ~Overlap(vehicles'[i], vehicles'[j])]_vars

\* the fixed cycle North, South, East, West, North
CycleSuccessor(d) ==
    [North |-> "South", South |-> "East", East |-> "West", West |-> "North"][d]

\* C5: the adaptive controller changes its state only by a switch; a switch
\* from a concrete approach leads to its cycle successor or to AllRed, which
\* remembers that approach; a switch from AllRed leads to the cycle
\* successor of the remembered approach, never to AllRed again.
C5_FixedCycle ==
    [][/\ tl'.elapsed # 0 =>
            /\ tl'.current = tl.current
            /\ tl'.last_green_direction = tl.last_green_direction
       /\ (tl'.elapsed = 0 /\ tl.current # "AllRed") =>
            \/ /\ tl'.current = CycleSuccessor(tl.current)
               /\ tl'.last_green_direction = tl.last_green_direction
            \/ /\ tl'.current = "AllRed"
               /\ tl'.last_green_direction = tl.current
       /\ (tl'.elapsed = 0 /\ tl.current = "AllRed") =>
            /\ tl'.current = CycleSuccessor(tl.last_green_direction)
            /\ tl'.last_green_direction = tl.last_green_direction]_vars

\* C5 witness: the clearance phase entered from South has resolved to East.
C5_Witness ==
    /\ tl.current = "East"
    /\ tl.last_green_direction = "South"
    /\ tl.elapsed = 0

\* the number of vehicles of an approach at or before the stop waypoint
Queued(vs, dir) ==
    Cardinality({i \in Indices(vs) : vs[i].dir = dir /\ vs[i].path_index <= 1})

\* the most VEHICLE_SIZE squares that fit between the spawn point and the
\* stop waypoint of an approach; a safety gap only lowers it
LaneCapacity(dir) ==
    LET path == generate_path(dir, "Straight")
    IN (Abs(path[2][1] - path[1][1]) + Abs(path[2][2] - path[1][2])) \div VEHICLE_SIZE

\* C6: once the queue of an approach has reached the lane capacity, a
\* further spawn_vehicle call for that approach leaves the vehicles
\* unchanged.
C6_CongestedSpawnIsNoOp ==
    [][\A dir \in Direction :
          Queued(vehicles, dir) >= LaneCapacity(dir)
              => \A j \in Indices(vehicles') :
                     vehicles'[j].dir = dir => vehicles'[j].id \in Ids(vehicles)]_vars

\* C7: spawn_vehicle adds no vehicle to an approach whose most recently
\* spawned vehicle stands within one vehicle length of the spawn point.
C7_NoSpawnOntoLastSpawned ==
    [][\A i \in Indices(vehicles) :
          LET v == vehicles[i]
              spawn_point == PathAt(v, 0)
          IN (/\ \A k \in Indices(vehicles) :
                     vehicles[k].dir = v.dir => vehicles[k].id <= v.id
              /\ Abs(v.x - spawn_point[1]) < VEHICLE_SIZE
              /\ Abs(v.y - spawn_point[2]) < VEHICLE_SIZE)
                 => \A j \in Indices(vehicles') :
                        vehicles'[j].dir = v.dir => vehicles'[j].id \in Ids(vehicles)]_vars

\* C8: a tick of a world with zero vehicles leaves the controller in the
\* clearance state.
C8_EmptyWorldAllRed ==
    [][(next_id' = next_id /\ vehicles = <<>>) => controller'.all_red_phase]_vars

\* C9: every vehicle that has become passed is eventually removed from the
\* world.
C9_PassedEventuallyRemoved ==
    \A id \in 0..(MaxVehicles - 1) :
        (\E i \in Indices(vehicles) : vehicles[i].id = id /\ vehicles[i].passed)
            ~> (id \notin Ids(vehicles))

\* the position lies outside the visible bounds by the eviction margin
OutsideMargin(v) ==
    \/ v.x <= -EVICT_MARGIN
    \/ v.x >= WINDOW_WIDTH + EVICT_MARGIN
    \/ v.y <= -EVICT_MARGIN
    \/ v.y >= WINDOW_HEIGHT + EVICT_MARGIN

\* C10: a vehicle whose position after the motion step of a tick lies
\* outside the eviction margin is absent after the tick; every id present
\* after a step was present before it or is the fresh next_id, which exceeds
\* every id issued so far, so no id comes back.
C10_EvictedForGood ==
    [][/\ next_id' = next_id =>
            \A i \in Indices(vehicles) :
                OutsideMargin(MoveAll(vehicles, controller')[i])
                    => vehicles[i].id \notin Ids(vehicles')
       /\ \A id \in Ids(vehicles') : id \in Ids(vehicles) \/ id = next_id
       /\ \A id \in Ids(vehicles') : id < next_id'
       /\ next_id' >= next_id]_vars

\* C10 witness: an id that was issued is absent: its vehicle was evicted.
C10_Witness == \E id \in 0..(next_id - 1) : id \notin Ids(vehicles)

\* the square of the distance of v from the waypoint after path_index
DistSqToNext(v) ==
    LET target == PathAt(v, Min(v.path_index + 1, Len(v.path) - 1))
    IN (target[1] - v.x) * (target[1] - v.x) + (target[2] - v.y) * (target[2] - v.y)

\* C11: in every step, the path_index of a vehicle does not decrease, stays
\* within its path and grows by at most one; it grows only when the vehicle
\* is less than 5 units from the next waypoint, and then x and y keep their
\* values.
C11_PathIndexMonotone ==
    [][\A i \in Indices(vehicles), j \in Indices(vehicles') :
          vehicles'[j].id = vehicles[i].id =>
              /\ vehicles'[j].path_index >= vehicles[i].path_index
              /\ vehicles'[j].path_index <= vehicles[i].path_index + 1
              /\ vehicles'[j].path_index <= Len(vehicles'[j].path) - 1
              /\ vehicles'[j].path_index = vehicles[i].path_index + 1 =>
                    /\ DistSqToNext(vehicles[i]) < STEP * STEP
                    /\ vehicles'[j].x = vehicles[i].x
                    /\ vehicles'[j].y = vehicles[i].y]_vars

\* C11 witness: a vehicle has reached the last index of its path.
C11_Witness ==
    \E i \in Indices(vehicles) : vehicles[i].path_index = Len(vehicles[i].path) - 1

\* the vehicle is the North vehicle going Straight
NorthStraight(v) == v.dir = "North" /\ v.turn = "Straight"

\* C12: a North vehicle going Straight, alone in the world, never moves
\* back on its way south and has its path_index grow one by one (spawn
\* waypoint, stop waypoint, far end); a tick leaves it as it was only while
\* it stands at the stop waypoint and North is not green; and it eventually
\* becomes passed at the far end.
C12_BasicCrossing ==
    /\ [][\A i \in Indices(vehicles), j \in Indices(vehicles') :
             (NorthStraight(vehicles[i]) /\ vehicles'[j].id = vehicles[i].id) =>
                 /\ vehicles'[j].x = vehicles[i].x
                 /\ vehicles'[j].y >= vehicles[i].y
                 /\ vehicles'[j].path_index \in
                        {vehicles[i].path_index, vehicles[i].path_index + 1}
                 /\ (~vehicles[i].passed /\ vehicles'[j] = vehicles[i]) =>
                        /\ <<vehicles[i].x, vehicles[i].y>> = PathAt(vehicles[i], 1)
                        /\ ~IsGreen(vehicles[i], controller')]_vars
    /\ (\E i \in Indices(vehicles) : NorthStraight(vehicles[i]))
          ~> (\E i \in Indices(vehicles) :
                 /\ NorthStraight(vehicles[i])
                 /\ vehicles[i].passed
                 /\ <<vehicles[i].x, vehicles[i].y>> = PathAt(vehicles[i], 2))

\* vehicles 0 and 1 of SpecFollow: the leader and the trailing vehicle
Leader(vs) == CHOOSE i \in Indices(vs) : vs[i].id = 0
Trailing(vs) == CHOOSE i \in Indices(vs) : vs[i].id = 1

\* C13: of two vehicles on one approach, the second spawned behind the first
\* without overlapping it, the bounding boxes never overlap at any tick, and
\* while both are on the approach leg the trailing one has not covered more
\* of it than the leader.
C13_FollowerKeepsGap ==
    Len(vehicles) = 2 =>
        LET l == vehicles[Leader(vehicles)]
            t == vehicles[Trailing(vehicles)]
        IN /\ ~Overlap(l, t)
           /\ (l.path_index = 0 /\ t.path_index = 0) => FromSpawn(t) < FromSpawn(l)

C15_UniqueIncreasingIds ==
    /\ [](/\ \A i, j \in Indices(vehicles) :
                i # j => vehicles[i].id # vehicles[j].id
          /\ \A i \in Indices(vehicles) : vehicles[i].id < next_id)
    /\ [][\A j \in Indices(vehicles') :
             vehicles'[j].id \notin Ids(vehicles) =>
                 /\ vehicles'[j].id = next_id
                 /\ vehicles'[j].id < next_id']_vars

\* C15 witness: vehicle 0 has been evicted and the vehicle spawned after it
\* is in the world with id 1.
C15_Witness == next_id = 2 /\ Ids(vehicles) = {1}

\* C16: a World::update (a step that leaves next_id alone) adds no vehicle,
\* keeps the id, approach, turn and path of every vehicle and the order of
\* the vehicles it keeps, and drops a vehicle only if its position after the
\* motion step lies outside the eviction margin; a spawn_vehicle (a step
\* that changes next_id) keeps every existing vehicle as it was, in place,
\* adds one vehicle at the end and leaves the controller unchanged.
C16_CreatedBySpawnRemovedBySweep ==
    [][/\ next_id' = next_id =>
            /\ Len(vehicles') <= Len(vehicles)
            /\ \A j \in Indices(vehicles') :
                   \E i \in Indices(vehicles) :
                       /\ i >= j
                       /\ vehicles'[j].id = vehicles[i].id
                       /\ vehicles'[j].dir = vehicles[i].dir
                       /\ vehicles'[j].turn = vehicles[i].turn
                       /\ vehicles'[j].path = vehicles[i].path
            /\ \A i \in Indices(vehicles) :
                   vehicles[i].id \notin Ids(vehicles')
                       => OutsideMargin(MoveAll(vehicles, controller')[i])
       /\ next_id' # next_id =>
            /\ Len(vehicles') = Len(vehicles) + 1
            /\ \A i \in Indices(vehicles) : vehicles'[i] = vehicles[i]
            /\ vehicles'[Len(vehicles')].id \notin Ids(vehicles)
            /\ controller' = controller]_vars

\* C16 witness: vehicle 0 has been swept away and vehicle 1, spawned after
\* it, has been moved by updates as far as its stop waypoint.
C16_Witness ==
    /\ Ids(vehicles) = {1}
    /\ \E i \in Indices(vehicles) : vehicles[i].path_index >= 1

\* the adaptive controller after an update called dt after the last one
TLAfter(dt, w, cars, line, cong) ==
    TLControllerUpdate(TLAdvance(tl, dt), w, cars, line, cong)

\* a switch is due at an update called dt after the last one: the phase
\* duration or the hard maximum has elapsed, or the approach has been seen
\* empty for the grace interval
Due(dt, w) ==
    \/ tl.elapsed + dt >= tl.phase_duration
    \/ tl.elapsed + dt >= MAX_PHASE_DURATION
    \/ /\ w = 0
       /\ tl.last_car_cleared_time # None
       /\ tl.last_car_cleared_time[1] + dt >= GRACE_MS

\* C17: while a concrete approach is green, an update of the adaptive
\* controller whose occupancy or stop-line input is true never makes another
\* concrete approach green; if a switch is due at that update, the
\* controller is in AllRed after it and remembers the approach that was
\* green.
C17_ClearanceInsteadOfGreen ==
    \A dt \in TLDts, w \in WaitingInputs, cars \in BOOLEAN, line \in BOOLEAN, cong \in BOOLEAN :
        (tl.current # "AllRed" /\ (cars \/ line)) =>
            /\ TLAfter(dt, w, cars, line, cong).current \in {tl.current, "AllRed"}
            /\ Due(dt, w) =>
                  /\ TLAfter(dt, w, cars, line, cong).current = "AllRed"
                  /\ TLAfter(dt, w, cars, line, cong).last_green_direction = tl.current

\* C17 witness: an update has just taken the controller from green for South
\* into the clearance phase.
C17_Witness ==
    /\ tl.current = "AllRed"
    /\ tl.last_green_direction = "South"
    /\ tl.elapsed = 0

\* C18: after every update of the adaptive controller that enters the
\* clearance phase, phase_duration is the clearance duration of 2 seconds.
C18_ClearanceLastsTwoSeconds ==
    [][(tl.current # "AllRed" /\ tl'.current = "AllRed")
          => tl'.phase_duration = Secs(CLEARANCE_SECS)]_vars

\* the phase duration that the priority rule of C19 gives, in ms
PriorityDuration(base, w, cong) ==
    IF cong THEN base + 5 * MS_PER_SEC
    ELSE IF w > 5 THEN base + 2 * MS_PER_SEC
    ELSE IF w = 0 THEN (IF base - MS_PER_SEC > MS_PER_SEC THEN base - MS_PER_SEC ELSE MS_PER_SEC)
    ELSE base

\* C19: after every update of the adaptive controller that makes a concrete
\* approach green, phase_duration is base + 5 s if is_congested, else
\* base + 2 s if waiting_vehicles > 5, else max(base - 1 s, 1 s) if
\* waiting_vehicles = 0, else the base duration, and it is at least 1 s and
\* at most base + 5 s.
C19_AdaptiveDuration ==
    \A dt \in TLDts, w \in WaitingInputs, cars \in BOOLEAN, line \in BOOLEAN, cong \in BOOLEAN :
        LET after == TLAfter(dt, w, cars, line, cong)
        IN (after.current # tl.current /\ after.current \in Direction) =>
               /\ after.phase_duration = PriorityDuration(tl.base_phase_duration, w, cong)
               /\ after.phase_duration >= MS_PER_SEC
               /\ after.phase_duration <= tl.base_phase_duration + 5 * MS_PER_SEC

\* C20: an update of the adaptive controller called 30 s or more after the
\* last switch, while a concrete approach is green, ends that green whatever
\* its inputs: afterwards the state is AllRed or the next approach of the
\* cycle, and the time of the last switch is that of the update.
C20_HardMaximum ==
    \A dt \in TLDts, w \in WaitingInputs, cars \in BOOLEAN, line \in BOOLEAN, cong \in BOOLEAN :
        (tl.current \in Direction /\ tl.elapsed + dt >= Secs(30)) =>
            /\ TLAfter(dt, w, cars, line, cong).current
                   \in {"AllRed", CycleSuccessor(tl.current)}
            /\ TLAfter(dt, w, cars, line, cong).elapsed = 0

\* C20 witness: a green phase whose duration exceeds the hard maximum is
\* about to reach 30 s, and no early release is pending.
C20_Witness ==
    /\ tl.current \in Direction
    /\ tl.phase_duration > Secs(30)
    /\ tl.elapsed + TLStepMs >= Secs(30)
    /\ tl.last_car_cleared_time = None

\* C21: the grace timer of the adaptive controller, when set, was started
\* after the last switch; an update with waiting_vehicles > 0 and every
\* switch leave it unset; an update with waiting_vehicles = 0 and no switch
\* starts it at that update or lets it run on; and a switch before the phase
\* duration and the hard maximum have elapsed happens only at an update with
\* waiting_vehicles = 0 whose timer has run for 500 ms or more.
C21_EarlySwitchAfterGrace ==
    /\ tl.last_car_cleared_time # None => tl.last_car_cleared_time[1] <= tl.elapsed
    /\ \A dt \in TLDts, w \in WaitingInputs, cars \in BOOLEAN, line \in BOOLEAN, cong \in BOOLEAN :
           LET after == TLAfter(dt, w, cars, line, cong)
           IN /\ w > 0 => after.last_car_cleared_time = None
              /\ after.elapsed = 0 => after.last_car_cleared_time = None
              /\ (w = 0 /\ after.elapsed # 0) =>
                     after.last_car_cleared_time =
                         IF tl.last_car_cleared_time = None THEN <<0>>
                         ELSE <<tl.last_car_cleared_time[1] + dt>>
              /\ (after.elapsed = 0 /\ tl.elapsed + dt < tl.phase_duration
                                    /\ tl.elapsed + dt < Secs(30)) =>
                     /\ w = 0
                     /\ tl.last_car_cleared_time # None
                     /\ tl.last_car_cleared_time[1] + dt >= 500

\* C21 witness: the approach has been seen empty for 250 ms or more and its
\* phase has more than 250 ms left, so that an update with no waiting vehicle
\* 250 ms later switches early.
C21_Witness ==
    /\ tl.current \in Direction
    /\ tl.last_car_cleared_time # None
    /\ tl.last_car_cleared_time[1] + TLStepMs >= 500
    /\ tl.elapsed + TLStepMs < tl.phase_duration

\* C22: with update called for ever, the adaptive controller always leaves
\* the clearance phase and makes each of the four approaches green again and
\* again, whatever the inputs of the calls.
C22_NoStarvation ==
    /\ (tl.current = "AllRed") ~> (tl.current \in Direction)
    /\ \A d \in Direction : []<>(tl.current = d)

\* C22 witness: the clearance phase entered from East has been left and West
\* is green.
C22_Witness ==
    /\ tl.current = "West"
    /\ tl.last_green_direction = "East"

\* the permutations of 1..n
IndexPermutations(n) ==
    {f \in [1..n -> 1..n] : \A i, j \in 1..n : i # j => f[i] # f[j]}

\* the vehicle list vs stored in the order f
Permuted(vs, f) == [i \in Indices(vs) |-> vs[f[i]]]

\* the set of the vehicle states of a list
VehicleStates(vs) == {vs[i] : i \in Indices(vs)}

\* the vehicle list and the controller after World::update on the list vs
UpdateOf(vs) ==
    LET c == ControllerAfter(vs, controller, Secs(TickSecs))
    IN [vehicles |-> Retain(MoveAll(vs, c)), controller |-> c]

\* C23: World::update run on any permutation of the vehicle list gives the
\* same controller and the same set of vehicle states as on the list
\* itself, the vehicles kept standing in the permuted order.
C23_OrderIndependent ==
    LET plain == UpdateOf(vehicles)
    IN \A f \in IndexPermutations(Len(vehicles)) :
           LET permuted == UpdateOf(Permuted(vehicles, f))
           IN /\ permuted.controller = plain.controller
              /\ VehicleStates(permuted.vehicles) = VehicleStates(plain.vehicles)
              /\ Len(permuted.vehicles) = Len(plain.vehicles)

\* C23 witness: two vehicles, one of which the collision check stops on the
\* positions of the snapshot while the other one is free to move.
C23_Witness ==
    /\ Len(vehicles) = 2
    /\ \E i, j \in Indices(vehicles) :
           /\ i # j
           /\ ~vehicles[i].passed
           /\ ~vehicles[j].passed
           /\ Blocks(vehicles[i], vehicles[j])
           /\ vehicles[i].path_index < 2
           /\ ~ShouldStop(vehicles[j], controller, vehicles)

\* the distance from the bounding box of a vehicle of approach dir standing
\* at p to the edge of the intersection that it faces; negative when the
\* box reaches over the edge
EdgeGap(dir, p) ==
    CASE dir = "North" -> INTERSECTION_Y_START - (p[2] + VEHICLE_SIZE)
      [] dir = "South" -> p[2] - INTERSECTION_Y_END
      [] dir = "East" -> p[1] - INTERSECTION_X_END
      [] dir = "West" -> INTERSECTION_X_START - (p[1] + VEHICLE_SIZE)

\* C24: the stop waypoint path[1] of every vehicle in the world lies at the
\* same distance outside the intersection edge as the stop waypoint of every
\* approach and turn; and a vehicle standing exactly at its stop waypoint
\* does not overlap the intersection and is not counted by
\* cars_in_intersection.
C24_StopWaypointOutsideBox ==
    \A i \in Indices(vehicles) :
        /\ EdgeGap(vehicles[i].dir, PathAt(vehicles[i], 1)) >= 0
        /\ \A dir \in Direction, turn \in Turn :
               EdgeGap(dir, generate_path(dir, turn)[2])
                   = EdgeGap(vehicles[i].dir, PathAt(vehicles[i], 1))
        /\ <<vehicles[i].x, vehicles[i].y>> = PathAt(vehicles[i], 1) =>
               /\ ~InIntersection(vehicles[i])
               /\ ~CarsInIntersection(<<vehicles[i]>>)

\* C25: a vehicle that is passed before a step is, if still in the world
\* after it, exactly as it was: passed, at the same position and path_index,
\* whatever the light and the other vehicles are; and it is still in the
\* world unless it lies outside the eviction margin.
C25_PassedIsInert ==
    [][\A i \in Indices(vehicles) :
           vehicles[i].passed =>
               /\ \A j \in Indices(vehicles') :
                      vehicles'[j].id = vehicles[i].id => vehicles'[j] = vehicles[i]
               /\ vehicles[i].id \in Ids(vehicles') \/ OutsideMargin(vehicles[i])]_vars

\* C25 witness: one vehicle became passed and has stayed in the world while
\* updates brought a second vehicle to the end of its path.
C25_Witness ==
    \E i, j \in Indices(vehicles) :
        /\ i # j
        /\ vehicles[i].passed
        /\ vehicles[j].passed

\* two vehicles that are not passed are each stopped by the collision check
\* on the other
MutualBlock ==
    \E i, j \in Indices(vehicles) :
        /\ i # j
        /\ ~vehicles[i].passed
        /\ ~vehicles[j].passed
        /\ vehicles[i].path_index < 2
        /\ vehicles[j].path_index < 2
        /\ Blocks(vehicles[i], vehicles[j])
        /\ Blocks(vehicles[j], vehicles[i])

\* C26: no reachable state has two vehicles that stop for each other in the
\* collision check. (In such a state neither vehicle moves at any later
\* update, so the positions, and with them the two stops, stay for ever and
\* neither vehicle becomes passed.)
C26_NoMutualBlock == ~MutualBlock

\* C27: an update of the adaptive controller at which no switch is due
\* leaves current, phase_duration, base_phase_duration and
\* last_green_direction as they were and keeps the time of the last switch
\* (the elapsed time grows by the time since the previous update), whatever
\* the inputs.
C27_NoSwitchNoChange ==
    \A dt \in TLDts, w \in WaitingInputs, cars \in BOOLEAN, line \in BOOLEAN, cong \in BOOLEAN :
        ~Due(dt, w) =>
            LET after == TLAfter(dt, w, cars, line, cong)
            IN /\ after.current = tl.current
               /\ after.phase_duration = tl.phase_duration
               /\ after.base_phase_duration = tl.base_phase_duration
               /\ after.last_green_direction = tl.last_green_direction
               /\ after.elapsed = tl.elapsed + dt

\* C27 witness: updates have been called for two seconds of a green phase
\* without a switch, and the phase has more than a second left.
C27_Witness ==
    /\ tl.current \in Direction
    /\ tl.elapsed >= Secs(2)
    /\ tl.elapsed + Secs(1) < tl.phase_duration
    /\ tl.elapsed + Secs(1) < Secs(30)

====
